---- MODULE Spec2Model ----
(***************************************************************************)
(* A model of ParallelMatrix<T> (src/src/PMatrix.h, src/src/PMatrix.cpp):  *)
(* the block-cyclic layout bookkeeping, the element accessors, the         *)
(* element-wise arithmetic, prod, diagonalize and symmetrize, as run by    *)
(* `size` MPI workers that execute the same call sequence (SPMD).          *)
(*                                                                         *)
(* mats[w][s] is the ParallelMatrix object that worker w holds in program  *)
(* variable s.  C indices are kept zero-based as in the source; a buffer   *)
(* `mat` is a TLA+ sequence, so C slot i is mat[i + 1].                    *)
(***************************************************************************)
EXTENDS Integers, Sequences, FiniteSets, TLC

VARIABLES size, scalar, contexts, mats, status, op, ret, acc, calls, pc, out, alias

vars == <<size, scalar, contexts, mats, status, op, ret, acc, calls, pc, out, alias>>

----------------------------------------------------------------------------
(* Bounds of the model *)

\* largest number of MPI workers
MaxWorkers == 4
\* largest global dimension in the layout specification
MaxDim == 4
\* largest requested block count in the layout specification
MaxBlocks == 3
\* largest global dimension in the access and operations specifications
MaxOpDim == 2
\* largest element value written through the accessor
MaxVal == 1
\* largest number of BLACS grids created in one run
MaxContexts == 2
\* largest numEigenvalues requested beyond the matrix dimension
MaxEigExtra == 1

Slots == {"A", "B", "R"}
Workers == 0 .. (size - 1)

----------------------------------------------------------------------------
(* C++ / Fortran integer arithmetic: division truncates towards zero and   *)
(* the remainder takes the sign of the dividend.                           *)

Abs(a) == IF a < 0 THEN -a ELSE a

TDiv(a, b) ==
  IF (a < 0) = (b < 0) THEN Abs(a) \div Abs(b) ELSE -(Abs(a) \div Abs(b))

TMod(a, b) == a - b * TDiv(a, b)

Max2(a, b) == IF a > b THEN a ELSE b

Min2(a, b) == IF a < b THEN a ELSE b

\* (int) sqrt(size): rounds down
ISqrt(n) == CHOOSE r \in 0 .. n : r * r <= n /\ (r + 1) * (r + 1) > n

----------------------------------------------------------------------------
(* The ScaLAPACK TOOLS routines the class calls (Fortran, one-based).      *)

\* NUMROC( N, NB, IPROC, ISRCPROC, NPROCS )
numroc(n, nb, iproc, isrcproc, nprocs) ==
  LET mydist    == TMod(nprocs + iproc - isrcproc, nprocs)
      nblocks   == TDiv(n, nb)
      base      == TDiv(nblocks, nprocs) * nb
      extrablks == TMod(nblocks, nprocs)
  IN  IF mydist < extrablks THEN base + nb
      ELSE IF mydist = extrablks THEN base + TMod(n, nb)
      ELSE base

\* INDXG2L( INDXGLOB, NB, IPROC, ISRCPROC, NPROCS )
indxg2l(indxglob, nb, iproc, isrcproc, nprocs) ==
  nb * TDiv(indxglob - 1, nb * nprocs) + TMod(indxglob - 1, nb) + 1

\* INDXL2G( INDXLOC, NB, IPROC, ISRCPROC, NPROCS )
indxl2g(indxloc, nb, iproc, isrcproc, nprocs) ==
  nprocs * nb * TDiv(indxloc - 1, nb)
    + TMod(indxloc - 1, nb)
    + TMod(nprocs + iproc - isrcproc, nprocs) * nb + 1

\* INFOG2L: the grid coordinate (RSRC, CSRC) of the process owning the
\* one-based global entry (grindx, gcindx); desc is the 9-field descriptor
infog2l(grindx, gcindx, desc, nprow, npcol, myrow, mycol) ==
  LET rblk == TDiv(grindx - 1, desc[5])
      cblk == TDiv(gcindx - 1, desc[6])
  IN  [iarow |-> TMod(rblk + desc[7], nprow),
       iacol |-> TMod(cblk + desc[8], npcol)]

\* DESCINIT: the descriptor, and info (0, or minus the index of the first
\* illegal argument)
descinit(m, n, mb, nb, irsrc, icsrc, ictxt, lld, nprow, npcol, myrow) ==
  [desc |-> <<1, ictxt, m, n, mb, nb, irsrc, icsrc, lld>>,
   info |-> IF m < 0 THEN -2
            ELSE IF n < 0 THEN -3
            ELSE IF mb < 1 THEN -4
            ELSE IF nb < 1 THEN -5
            ELSE IF irsrc < 0 \/ irsrc >= nprow THEN -6
            ELSE IF icsrc < 0 \/ icsrc >= npcol THEN -7
            ELSE IF lld < Max2(1, numroc(m, mb, myrow, irsrc, nprow)) THEN -9
            ELSE 0]

----------------------------------------------------------------------------
(* BLACS process grids.  contexts[c + 1] is the grid of context id c.      *)

\* blacs_gridinfo_: the grid's shape and the caller's coordinate in it
\* (row-major process mapping, blacsLayout_ = 'R'); all -1 outside the grid
blacs_gridinfo(ctxs, ctxt, w) ==
  IF ctxt < 0 \/ ctxt >= Len(ctxs) \/ w >= ctxs[ctxt + 1].nprow * ctxs[ctxt + 1].npcol
  THEN [nprow |-> -1, npcol |-> -1, myrow |-> -1, mycol |-> -1]
  ELSE [nprow |-> ctxs[ctxt + 1].nprow,
        npcol |-> ctxs[ctxt + 1].npcol,
        myrow |-> w \div ctxs[ctxt + 1].npcol,
        mycol |-> w % ctxs[ctxt + 1].npcol]

\* the grid shape initBlacs settles on before it creates or joins a grid
RequestedGrid(numBlacsRows, numBlacsCols, mpiSize) ==
  IF numBlacsRows # 0 /\ numBlacsCols = 0
    THEN [nprow |-> numBlacsRows, npcol |-> TDiv(mpiSize, numBlacsRows)]
  ELSE IF numBlacsRows = 0 /\ numBlacsCols # 0
    THEN [nprow |-> TDiv(mpiSize, numBlacsCols), npcol |-> numBlacsCols]
  ELSE IF numBlacsRows # 0 /\ numBlacsCols # 0
    THEN [nprow |-> numBlacsRows, npcol |-> numBlacsCols]
  ELSE [nprow |-> ISqrt(mpiSize), npcol |-> ISqrt(mpiSize)]

\* whether initBlacs calls Error before it reaches blacs_gridinit_
initBlacsFails(numBlacsRows, numBlacsCols, mpiSize) ==
  \/ mpiSize < numBlacsRows * numBlacsCols
  \/ /\ numBlacsRows = 0
     /\ numBlacsCols = 0
     /\ mpiSize > ISqrt(mpiSize) * ISqrt(mpiSize)

\* the grids after initBlacs returned: a new one unless a context was given
initBlacsContexts(ctxs, numBlacsRows, numBlacsCols, inputBlacsContext, mpiSize) ==
  IF inputBlacsContext = -1
  THEN Append(ctxs, RequestedGrid(numBlacsRows, numBlacsCols, mpiSize))
  ELSE ctxs

\* the context id the object is bound to after initBlacs returned
initBlacsContextId(ctxs, inputBlacsContext) ==
  IF inputBlacsContext = -1 THEN Len(ctxs) ELSE inputBlacsContext

----------------------------------------------------------------------------
(* The ParallelMatrix object.                                              *)

\* ParallelMatrix(): every field at its in-class initialiser, no buffer
EmptyMatrix ==
  [numRows_ |-> 0, numCols_ |-> 0,
   numLocalRows_ |-> 0, numLocalCols_ |-> 0, numLocalElements_ |-> 0,
   numBlocksRows_ |-> 0, numBlocksCols_ |-> 0,
   blockSizeRows_ |-> 0, blockSizeCols_ |-> 0,
   numBlacsRows_ |-> 0, numBlacsCols_ |-> 0,
   myBlacsRow_ |-> 0, myBlacsCol_ |-> 0,
   descMat_ |-> <<0, 0, 0, 0, 0, 0, 0, 0, 0>>,
   blasRank_ |-> 0, blacsContext_ |-> 0,
   dummyZero |-> 0,
   mat |-> <<>>, allocated |-> FALSE]

\* blockSize = dim / numBlocks, plus one when the division leaves a remainder
blockSize(dim, numBlocks) ==
  IF TMod(dim, numBlocks) # 0 THEN TDiv(dim, numBlocks) + 1 ELSE TDiv(dim, numBlocks)

\* a buffer of n elements, all zero
ZeroBuffer(n) == [i \in 1 .. n |-> 0]

\* ParallelMatrix(numRows, numCols, numBlocksRows, numBlocksCols, blacsContext)
\* on worker w, after initBlacs returned with the grids ctxs and the
\* context id ctxt: the object, and info of descinit_
ConstructFields(w, ctxs, ctxt, numRows, numCols, numBlocksRows, numBlocksCols) ==
  LET gi   == blacs_gridinfo(ctxs, ctxt, w)
      nbr  == IF numBlocksRows = 0 THEN gi.nprow ELSE numBlocksRows
      nbc  == IF numBlocksCols = 0 THEN gi.npcol ELSE numBlocksCols
      bsr  == blockSize(numRows, nbr)
      bsc  == blockSize(numCols, nbc)
      lr   == numroc(numRows, bsr, gi.myrow, 0, gi.nprow)
      lc   == numroc(numCols, bsc, gi.mycol, 0, gi.npcol)
      \* int product converted to size_t; far below 2^31 within the bounds
      nel  == lr * lc
      lddA == IF lr > 1 THEN lr ELSE 1
      d    == descinit(numRows, numCols, bsr, bsc, 0, 0, ctxt, lddA,
                       gi.nprow, gi.npcol, gi.myrow)
  IN  [obj |-> [numRows_ |-> numRows, numCols_ |-> numCols,
                numLocalRows_ |-> lr, numLocalCols_ |-> lc,
                numLocalElements_ |-> nel,
                numBlocksRows_ |-> nbr, numBlocksCols_ |-> nbc,
                blockSizeRows_ |-> bsr, blockSizeCols_ |-> bsc,
                numBlacsRows_ |-> gi.nprow, numBlacsCols_ |-> gi.npcol,
                myBlacsRow_ |-> gi.myrow, myBlacsCol_ |-> gi.mycol,
                descMat_ |-> d.desc,
                blasRank_ |-> w, blacsContext_ |-> ctxt,
                dummyZero |-> 0,
                mat |-> ZeroBuffer(nel), allocated |-> TRUE],
       info |-> d.info]

\* local2Global mutated: k split by the local column count (row-major)
local2GlobalRowMajor(M, k) ==
  LET j   == TDiv(k, Max2(1, M.numLocalCols_))
      i   == k - j * M.numLocalCols_
      l_i == TDiv(i, M.blockSizeRows_)
      x_i == TMod(i, M.blockSizeRows_)
      I   == (l_i * M.numBlacsRows_ + M.myBlacsRow_) * M.blockSizeRows_ + x_i
      l_j == TDiv(j, M.blockSizeCols_)
      x_j == TMod(j, M.blockSizeCols_)
      J   == (l_j * M.numBlacsCols_ + M.myBlacsCol_) * M.blockSizeCols_ + x_j
  IN  <<I, J>>

\* local2Global(k): the global (row, col) of local storage index k
local2Global(M, k) ==
  LET j   == TDiv(k, M.numLocalRows_)
      i   == k - j * M.numLocalRows_
      l_i == TDiv(i, M.blockSizeRows_)
      x_i == TMod(i, M.blockSizeRows_)
      I   == (l_i * M.numBlacsRows_ + M.myBlacsRow_) * M.blockSizeRows_ + x_i
      l_j == TDiv(j, M.blockSizeCols_)
      x_j == TMod(j, M.blockSizeCols_)
      J   == (l_j * M.numBlacsCols_ + M.myBlacsCol_) * M.blockSizeCols_ + x_j
  IN  <<I, J>>

\* global2Local mutated: the ownership test joined with && instead of ||
global2LocalBothDiffer(M, row, col) ==
  LET row_ == row + 1
      col_ == col + 1
      own  == infog2l(row_, col_, M.descMat_, M.numBlacsRows_, M.numBlacsCols_,
                      M.myBlacsRow_, M.myBlacsCol_)
  IN  IF M.myBlacsRow_ # own.iarow /\ M.myBlacsCol_ # own.iacol
      THEN -1
      ELSE LET il == indxg2l(row_, M.blockSizeRows_, M.myBlacsRow_, 0, M.numBlacsRows_)
               jl == indxg2l(col_, M.blockSizeCols_, M.myBlacsCol_, 0, M.numBlacsCols_)
           IN  il + (jl - 1) * M.descMat_[9] - 1

\* global2Local(row, col): the local storage index of the zero-based global
\* entry, -1 when this process does not own it
global2Local(M, row, col) ==
  LET row_ == row + 1
      col_ == col + 1
      own  == infog2l(row_, col_, M.descMat_, M.numBlacsRows_, M.numBlacsCols_,
                      M.myBlacsRow_, M.myBlacsCol_)
  IN  IF M.myBlacsRow_ # own.iarow \/ M.myBlacsCol_ # own.iacol
      THEN -1
      ELSE LET il == indxg2l(row_, M.blockSizeRows_, M.myBlacsRow_, 0, M.numBlacsRows_)
               jl == indxg2l(col_, M.blockSizeCols_, M.myBlacsCol_, 0, M.numBlacsCols_)
           IN  il + (jl - 1) * M.descMat_[9] - 1

\* getAllLocalElements(): local2Global(k) for k = 0 .. numLocalElements_ - 1
getAllLocalElements(M) ==
  [k1 \in 1 .. M.numLocalElements_ |-> local2Global(M, k1 - 1)]

----------------------------------------------------------------------------
(* State shared by the specifications.                                     *)

AllRunning == \A w \in Workers : status[w] = "running"

\* a context whose grid holds every worker: the matrices of the model are
\* built on such grids only
SpansAllWorkers(ctxt) ==
  /\ ctxt >= 0
  /\ ctxt < Len(contexts)
  /\ contexts[ctxt + 1].nprow * contexts[ctxt + 1].npcol = size

NoAccess == [w \in Workers |-> {}]

\* the objects whose mat points to the allocation the mat of s points to
Aliased(s) == {t \in Slots \ {s} : {s, t} \in alias}

\* the objects after the stores that turned mats into ms: a store through
\* one pointer is a store to the buffer of every object that shares it
Through(ms) ==
  [w \in Workers |->
     [t \in Slots |->
        IF \E s \in Aliased(t) : ms[w][s].mat # mats[w][s].mat
        THEN [ms[w][t] EXCEPT !.mat =
                ms[w][CHOOSE s \in Aliased(t) : ms[w][s].mat # mats[w][s].mat].mat]
        ELSE ms[w][t]]]

\* the two fatal-error routines
ErrorKinds == {"Error", "DeveloperError"}

\* mpi->mpiHead(): the designated worker
mpiHead(w) == w = 0

\* where the workers are in Error / DeveloperError once the calls that gave
\* the statuses st have run as far as they can: callers leave the barrier,
\* finalize and exit when every worker called, and stay in the barrier
\* otherwise
ErrorPc(st) ==
  [w \in Workers |->
     IF st[w] \in ErrorKinds
     THEN IF \A v \in Workers : st[v] \in ErrorKinds THEN "exited" ELSE "barrier"
     ELSE "none"]

\* the standard output after those calls: the head's message, if it called
ErrorOut(st) ==
  IF st[0] \in ErrorKinds /\ status[0] \notin ErrorKinds
  THEN Append(out, [w |-> 0, kind |-> st[0]])
  ELSE out

\* every operation of the matrix class runs the fatal-error routine, when
\* it calls it, to its end
Protocol ==
  /\ pc' = ErrorPc(status')
  /\ out' = ErrorOut(status')

Init ==
  /\ size \in 1 .. MaxWorkers
  /\ scalar \in {"double", "complex"}
  /\ contexts = <<>>
  /\ mats = [w \in Workers |-> [s \in Slots |-> EmptyMatrix]]
  /\ status = [w \in Workers |-> "running"]
  /\ op = [name |-> "start"]
  /\ ret = [name |-> "none"]
  /\ acc = NoAccess
  /\ calls = <<>>
  /\ pc = [w \in Workers |-> "none"]
  /\ out = <<>>
  /\ alias = {}

\* every worker calls Error / DeveloperError: the process group terminates
Fail(kind, opRecord) ==
  /\ status' = [w \in Workers |-> kind]
  /\ op' = opRecord
  /\ ret' = [name |-> "none"]
  /\ acc' = NoAccess
  /\ calls' = <<>>
  /\ UNCHANGED <<size, scalar, contexts, mats>>
  /\ Protocol
  /\ alias' = alias

\* ParallelMatrix<T> g; g.initBlacs(numBlacsRows, numBlacsCols): the caller
\* sets up a grid of its own
InitBlacsCall(numBlacsRows, numBlacsCols) ==
  /\ AllRunning
  /\ Len(contexts) < MaxContexts
  /\ LET o == [name |-> "initBlacs", r |-> numBlacsRows, c |-> numBlacsCols]
     IN  IF initBlacsFails(numBlacsRows, numBlacsCols, size)
         THEN Fail("Error", o)
         ELSE /\ contexts' = initBlacsContexts(contexts, numBlacsRows, numBlacsCols, -1, size)
              /\ op' = o
              /\ ret' = [name |-> "none"]
              /\ acc' = NoAccess
              /\ calls' = <<>>
              /\ UNCHANGED <<size, scalar, mats, status>>
              /\ Protocol
              /\ alias' = alias

\* ParallelMatrix<T> s(numRows, numCols, numBlocksRows, numBlocksCols, blacsContext)
Construct(s, numRows, numCols, numBlocksRows, numBlocksCols, blacsContext) ==
  /\ AllRunning
  /\ ~mats[0][s].allocated
  /\ blacsContext = -1 => Len(contexts) < MaxContexts
  /\ blacsContext # -1 => SpansAllWorkers(blacsContext)
  /\ LET o    == [name |-> "construct", s |-> s, ctx |-> blacsContext]
         ctxs == initBlacsContexts(contexts, 0, 0, blacsContext, size)
         ctxt == initBlacsContextId(contexts, blacsContext)
         c(w) == ConstructFields(w, ctxs, ctxt, numRows, numCols,
                                 numBlocksRows, numBlocksCols)
     IN  IF initBlacsFails(0, 0, size)
         THEN Fail("Error", o)
         ELSE /\ contexts' = ctxs
              /\ mats' = [w \in Workers |->
                            IF c(w).info = 0
                            THEN [mats[w] EXCEPT ![s] = c(w).obj]
                            ELSE mats[w]]
              /\ status' = [w \in Workers |->
                              IF c(w).info = 0 THEN "running" ELSE "DeveloperError"]
              /\ op' = o
              /\ ret' = [name |-> "none"]
              /\ acc' = NoAccess
              /\ calls' = <<>>
              /\ UNCHANGED <<size, scalar>>
              /\ Protocol
              /\ alias' = alias

\* auto x = s.getAllLocalElements()
GetAllLocalElements(s) ==
  /\ AllRunning
  /\ mats[0][s].allocated
  /\ op' = [name |-> "getAllLocalElements", s |-> s]
  /\ ret' = [name |-> "elements",
             x |-> [w \in Workers |-> getAllLocalElements(mats[w][s])]]
  /\ acc' = NoAccess
  /\ calls' = <<>>
  /\ UNCHANGED <<size, scalar, contexts, mats, status>>
  /\ Protocol
  /\ alias' = alias

----------------------------------------------------------------------------
(* The layout specification: one grid set up by the caller at most, then   *)
(* one matrix of any shape and block count, then its owned elements.       *)

LayoutInit == Init /\ scalar = "double"

LayoutNext ==
  \/ /\ contexts = <<>>
     /\ \E r, c \in 0 .. MaxWorkers : InitBlacsCall(r, c)
  \/ \E nr, nc \in 1 .. MaxDim, br, bc \in 0 .. MaxBlocks,
        ctx \in -1 .. (MaxContexts - 1) :
       Construct("A", nr, nc, br, bc, ctx)
  \/ GetAllLocalElements("A")

SpecLayout == LayoutInit /\ [][LayoutNext]_vars

----------------------------------------------------------------------------
(* Element access: operator()(row, col), mutable and const.                *)

\* the bounds test of the mutable operator(): DeveloperError when it holds
accessCheckFails(M, row, col) == row > M.numRows_ \/ col > M.numCols_

\* operator() mutated: the dummy is handed out without being cleared
dummyZeroRefStale(M) == M

\* the mutable operator() on an entry that is not local: dummyZero = 0.,
\* then a reference to dummyZero is returned
dummyZeroRef(M) == [M EXCEPT !.dummyZero = 0]

\* whether a local index addresses a slot of the buffer
InBuffer(M, i) == i >= 0 /\ i < Len(M.mat)

\* s(row, col) = v on one worker: the object afterwards and the buffer
\* indices touched.  A store outside the buffer is undefined behaviour: the
\* object is left as it is here, the index is recorded.
storeElement(s, M, row, col, v) ==
  LET i == global2Local(M, row, col)
  IN  IF i = -1
      THEN [obj |-> [dummyZeroRef(M) EXCEPT !.dummyZero = v], acc |-> {}]
      ELSE IF InBuffer(M, i)
      THEN [obj |-> [M EXCEPT !.mat[i + 1] = v],
            acc |-> {[s |-> s, k |-> "w", i |-> i]}]
      ELSE [obj |-> M, acc |-> {[s |-> s, k |-> "w", i |-> i]}]

\* x = s(row, col) through the mutable operator() on one worker; junk is
\* what a load outside the buffer yields
loadElement(s, M, row, col, junk) ==
  LET i == global2Local(M, row, col)
  IN  IF i = -1
      THEN [obj |-> dummyZeroRef(M), val |-> dummyZeroRef(M).dummyZero, acc |-> {}]
      ELSE IF InBuffer(M, i)
      THEN [obj |-> M, val |-> M.mat[i + 1], acc |-> {[s |-> s, k |-> "r", i |-> i]}]
      ELSE [obj |-> M, val |-> junk, acc |-> {[s |-> s, k |-> "r", i |-> i]}]

\* x = s(row, col) through the const operator(): dummyConstZero when the
\* entry is not local
loadElementConst(s, M, row, col, junk) ==
  LET i == global2Local(M, row, col)
  IN  IF i = -1
      THEN [obj |-> M, val |-> 0, acc |-> {}]
      ELSE IF InBuffer(M, i)
      THEN [obj |-> M, val |-> M.mat[i + 1], acc |-> {[s |-> s, k |-> "r", i |-> i]}]
      ELSE [obj |-> M, val |-> junk, acc |-> {[s |-> s, k |-> "r", i |-> i]}]

\* whether worker w touched an index outside a buffer
OutOfBuffer(w, touched) == \E a \in touched : ~InBuffer(mats[w][a.s], a.i)

\* the status of a worker after it touched the indices `touched`: an access
\* outside a buffer may end the process (crash) or go unnoticed
AfterAccess(w, touched, crash) ==
  IF crash /\ OutOfBuffer(w, touched) THEN "crash" ELSE "running"

\* s(row, col) = v, on every worker
SetElement(s, row, col, v) ==
  /\ AllRunning
  /\ mats[0][s].allocated
  /\ LET o == [name |-> "set", s |-> s, row |-> row, col |-> col, v |-> v]
         r(w) == storeElement(s, mats[w][s], row, col, v)
     IN  IF accessCheckFails(mats[0][s], row, col)
         THEN Fail("DeveloperError", o)
         ELSE \E crash \in BOOLEAN :
              /\ crash => \E w \in Workers : OutOfBuffer(w, r(w).acc)
              /\ mats' = Through([w \in Workers |-> [mats[w] EXCEPT ![s] = r(w).obj]])
              /\ acc' = [w \in Workers |-> r(w).acc]
              /\ status' = [w \in Workers |-> AfterAccess(w, r(w).acc, crash)]
              /\ op' = o
              /\ ret' = [name |-> "none"]
              /\ calls' = <<>>
              /\ UNCHANGED <<size, scalar, contexts>>
              /\ Protocol
              /\ alias' = alias

\* x = s(row, col), on every worker; const selects the const overload
GetElement(s, row, col, const) ==
  /\ AllRunning
  /\ mats[0][s].allocated
  /\ LET o == [name |-> IF const THEN "getConst" ELSE "get",
               s |-> s, row |-> row, col |-> col]
     IN  IF ~const /\ accessCheckFails(mats[0][s], row, col)
         THEN Fail("DeveloperError", o)
         ELSE \E crash \in BOOLEAN, junk \in 0 .. MaxVal :
              LET r(w) == IF const
                          THEN loadElementConst(s, mats[w][s], row, col, junk)
                          ELSE loadElement(s, mats[w][s], row, col, junk)
                  oob  == \E w \in Workers : OutOfBuffer(w, r(w).acc)
              IN  /\ crash => oob
                  /\ junk # 0 => oob
                  /\ mats' = Through([w \in Workers |-> [mats[w] EXCEPT ![s] = r(w).obj]])
                  /\ acc' = [w \in Workers |-> r(w).acc]
                  /\ status' = [w \in Workers |-> AfterAccess(w, r(w).acc, crash)]
                  /\ op' = o
                  /\ ret' = [name |-> "value", val |-> [w \in Workers |-> r(w).val]]
                  /\ calls' = <<>>
                  /\ UNCHANGED <<size, scalar, contexts>>
                  /\ Protocol
                  /\ alias' = alias

----------------------------------------------------------------------------
(* The access specification: a matrix with the default blocks on the       *)
(* default grid, one store, one load, with coordinates in and out of range.*)

AccessInit == Init /\ scalar = "double"

AccessNext ==
  \/ \E nr, nc \in 1 .. MaxOpDim : Construct("A", nr, nc, 0, 0, -1)
  \/ /\ op.name = "construct"
     /\ \E row, col \in -1 .. MaxOpDim, v \in 1 .. MaxVal : SetElement("A", row, col, v)
  \/ /\ op.name \in {"construct", "set"}
     /\ \E row, col \in -1 .. MaxOpDim, const \in BOOLEAN : GetElement("A", row, col, const)

SpecAccess == AccessInit /\ [][AccessNext]_vars

----------------------------------------------------------------------------
(* Copies, zeros, eye, element-wise arithmetic and prod.                   *)

\* one step of the program: every variable but size and scalar is given
Step(o, st, ms, cx, rt, ac, cl) ==
  /\ op' = o
  /\ status' = st
  /\ mats' = Through(ms)
  /\ contexts' = cx
  /\ ret' = rt
  /\ acc' = ac
  /\ calls' = cl
  /\ UNCHANGED <<size, scalar>>
  /\ Protocol
  /\ alias' = alias

AllStatus(kind) == [w \in Workers |-> kind]

\* ParallelMatrix(const ParallelMatrix& that): every layout field and the
\* descriptor copied, a buffer of its own filled from that.mat; dummyZero is
\* not copied
copyOf(that) ==
  [that EXCEPT !.dummyZero = 0,
               !.mat = [i \in 1 .. that.numLocalElements_ |-> that.mat[i]],
               !.allocated = TRUE]

\* zeros()
zeros(M) == [M EXCEPT !.mat = ZeroBuffer(M.numLocalElements_)]

RECURSIVE eyeFill(_, _, _)
\* the loop of eye(): operator()(i, i) = 1. for i = from .. numRows_ - 1
eyeFill(s, M, from) ==
  IF from >= M.numRows_ THEN M
  ELSE eyeFill(s, storeElement(s, M, from, from, 1).obj, from + 1)

\* the indices 0 .. n-1 of the buffer of s, touched in the way k
Touch(s, k, n) == {[s |-> s, k |-> k, i |-> i] : i \in 0 .. (n - 1)}

\* s.eye()
Eye(s) ==
  /\ AllRunning
  /\ mats[0][s].allocated
  /\ LET o == [name |-> "eye", s |-> s]
     IN  IF mats[0][s].numRows_ # mats[0][s].numCols_
         THEN Fail("Error", o)
         ELSE Step(o, status,
                   [w \in Workers |->
                      [mats[w] EXCEPT ![s] = eyeFill(s, zeros(mats[w][s]), 0)]],
                   contexts, [name |-> "none"],
                   [w \in Workers |-> Touch(s, "w", mats[w][s].numLocalElements_)],
                   <<>>)

\* the shape test mutated: only a mismatch in both dimensions is refused
shapeMismatchBoth(M, that) ==
  M.numRows_ # that.numRows_ /\ M.numCols_ # that.numCols_

\* the test of operator+= and operator-=: Error when it holds
shapeMismatch(M, that) ==
  M.numRows_ # that.numRows_ \/ M.numCols_ # that.numCols_

\* *(that.mat + i): outside that's buffer the load yields junk
loadThat(that, i, junk) == IF InBuffer(that, i) THEN that.mat[i + 1] ELSE junk

\* the loop of operator+= (sign 1) and operator-= (sign -1) on one worker
addLoop(M, that, sign, junk) ==
  [M EXCEPT !.mat = [i1 \in 1 .. M.numLocalElements_ |->
                       M.mat[i1] + sign * loadThat(that, i1 - 1, junk)]]

\* a += b (sign 1), a -= b (sign -1), on every worker
AddAssign(a, b, sign) ==
  /\ AllRunning
  /\ mats[0][a].allocated /\ mats[0][b].allocated
  /\ LET o == [name |-> IF sign = 1 THEN "+=" ELSE "-=", a |-> a, b |-> b]
         t(w) == Touch(a, "r", mats[w][a].numLocalElements_)
                   \cup Touch(a, "w", mats[w][a].numLocalElements_)
                   \cup Touch(b, "r", mats[w][a].numLocalElements_)
     IN  IF shapeMismatch(mats[0][a], mats[0][b])
         THEN Fail("Error", o)
         ELSE \E crash \in BOOLEAN, junk \in 0 .. MaxVal :
              /\ crash => \E w \in Workers : OutOfBuffer(w, t(w))
              /\ junk # 0 => \E w \in Workers : OutOfBuffer(w, t(w))
              /\ Step(o,
                      [w \in Workers |-> AfterAccess(w, t(w), crash)],
                      [w \in Workers |->
                         [mats[w] EXCEPT ![a] = addLoop(mats[w][a], mats[w][b], sign, junk)]],
                      contexts, [name |-> "none"],
                      [w \in Workers |-> t(w)],
                      <<>>)

\* the test at the head of prod: Error when it holds
prodRejects(M, that) == M.numCols_ # that.numRows_

\* m, n and k as prod derives them from the transpose flags
prodM(M, trans1) == IF trans1 = "N" THEN M.numRows_ ELSE M.numCols_

prodN(that, trans2) == IF trans2 = "N" THEN that.numCols_ ELSE that.numRows_

prodK(M, trans1) == IF trans1 = "N" THEN M.numCols_ ELSE M.numRows_

\* the assert on k
prodAssertHolds(M, that, trans1, trans2) ==
  IF trans2 = "N" THEN prodK(M, trans1) = that.numRows_
  ELSE prodK(M, trans1) = that.numCols_

\* the matrix prod hands to the backend as C, on worker w: a zeroed copy of
\* `that` for double; for complex<double> a matrix built from this's shape
\* and block counts on a grid of its own (ctxs, ctxt)
prodResult(w, M, that, ctxs, ctxt) ==
  IF scalar = "double"
  THEN zeros(copyOf(that))
  ELSE ConstructFields(w, ctxs, ctxt, M.numRows_, M.numCols_,
                       M.numBlocksRows_, M.numBlocksCols_).obj

\* pdgemm_ / pzgemm_ as called by prod
GemmCall(M, that, trans1, trans2) ==
  [routine |-> IF scalar = "double" THEN "pdgemm" ELSE "pzgemm",
   transa |-> trans1, transb |-> trans2,
   m |-> prodM(M, trans1), n |-> prodN(that, trans2), k |-> prodK(M, trans1)]

\* R = a.prod(b, trans1, trans2), on every worker.  With the assert on k
\* failing, a build with assertions aborts and a build without (NDEBUG)
\* goes on to the backend.
Prod(a, b, trans1, trans2) ==
  /\ AllRunning
  /\ mats[0][a].allocated /\ mats[0][b].allocated
  /\ scalar = "complex" => Len(contexts) < MaxContexts
  /\ LET o    == [name |-> "prod", a |-> a, b |-> b, t1 |-> trans1, t2 |-> trans2]
         ctxs == IF scalar = "double" THEN contexts
                 ELSE initBlacsContexts(contexts, 0, 0, -1, size)
         ctxt == initBlacsContextId(contexts, -1)
         A    == mats[0][a]
         B    == mats[0][b]
     IN  IF scalar = "complex" /\ initBlacsFails(0, 0, size)
         THEN Fail("Error", o)
         ELSE IF prodRejects(A, B)
         THEN Step(o, AllStatus("Error"), mats, ctxs, [name |-> "none"], NoAccess, <<>>)
         ELSE \E ndebug \in BOOLEAN :
              /\ ndebug => ~prodAssertHolds(A, B, trans1, trans2)
              /\ IF ~prodAssertHolds(A, B, trans1, trans2) /\ ~ndebug
                 THEN Step(o, AllStatus("abort"), mats, ctxs, [name |-> "none"],
                           NoAccess, <<>>)
                 ELSE Step(o, status,
                           [w \in Workers |->
                              [mats[w] EXCEPT !["R"] =
                                 prodResult(w, mats[w][a], mats[w][b], ctxs, ctxt)]],
                           ctxs, [name |-> "matrix"], NoAccess,
                           <<GemmCall(A, B, trans1, trans2)>>)

----------------------------------------------------------------------------
(* The arithmetic specification: two matrices with the default blocks, the *)
(* second on a grid of its own or on the first one's, then one of prod, += *)
(* and -=.                                                                 *)

Trans == {"N", "T", "C"}

ArithReady == op.name \in {"construct", "eye"} /\ mats[0]["B"].allocated

ArithNext ==
  \/ \E nr, nc \in 1 .. MaxOpDim : Construct("A", nr, nc, 0, 0, -1)
  \/ /\ mats[0]["A"].allocated
     /\ \E nr, nc \in 1 .. MaxOpDim, ctx \in {-1, 0} : Construct("B", nr, nc, 0, 0, ctx)
  \/ /\ ArithReady
     /\ op.name = "construct"
     /\ Eye("B")
  \/ /\ ArithReady
     /\ \E t1, t2 \in Trans : Prod("A", "B", t1, t2)
  \/ /\ ArithReady
     /\ AddAssign("A", "B", 1)
  \/ /\ ArithReady
     /\ AddAssign("A", "B", -1)

SpecArith == Init /\ [][ArithNext]_vars

----------------------------------------------------------------------------
(* diagonalize() and diagonalize(numEigenvalues).  What the backend writes *)
(* into the buffers is not modelled: the eigenvector matrix keeps the      *)
(* zeros of its construction.  A failed allocation is modelled only where  *)
(* the code catches it.                                                    *)

\* the test mutated: only the matrix shape is looked at
diagonalizeRejectsShapeOnly(M) == M.numRows_ # M.numCols_

\* the tests at the head of every diagonalize: Error when one holds
diagonalizeRejects(M) ==
  \/ M.numRows_ # M.numCols_
  \/ M.numBlacsRows_ # M.numBlacsCols_

\* the context the eigenvector matrix is constructed with: blacsContext_ for
\* double, none (-1, a new default grid) for complex<double>
eigenvectorsContext(M) == IF scalar = "double" THEN M.blacsContext_ ELSE -1

\* the backend calls of diagonalize() up to call number upTo
fullSpectrumCalls(M, upTo) ==
  SubSeq(IF scalar = "double"
         THEN << [routine |-> "pdsyevd", n |-> M.numRows_, lwork |-> "query"],
                 [routine |-> "allocate", n |-> M.numRows_, lwork |-> "queried"],
                 [routine |-> "pdsyevd", n |-> M.numRows_, lwork |-> "queried"] >>
         ELSE << [routine |-> "pzheev", n |-> M.numRows_, lwork |-> "formula"] >>,
         1, upTo)

\* std::tuple<std::vector<double>, ParallelMatrix<T>> R = s.diagonalize().
\* outcome: "ok", "badalloc" (the workspace allocation throws, double only),
\* "info" (the backend reports a nonzero status)
Diagonalize(s, outcome) ==
  /\ AllRunning
  /\ mats[0][s].allocated
  /\ outcome = "badalloc" => scalar = "double"
  /\ LET o    == [name |-> "diagonalize", s |-> s]
         M0   == mats[0][s]
         in   == eigenvectorsContext(M0)
         ctxs == initBlacsContexts(contexts, 0, 0, in, size)
         ctxt == initBlacsContextId(contexts, in)
         all  == IF scalar = "double" THEN 3 ELSE 1
     IN  IF diagonalizeRejects(M0)
         THEN Fail("Error", o)
         ELSE /\ in = -1 => Len(contexts) < MaxContexts
              /\ IF initBlacsFails(0, 0, size)
                 THEN Fail("Error", o)
                 ELSE IF outcome = "badalloc"
                 THEN Step(o, AllStatus("Error"), mats, ctxs, [name |-> "none"],
                           NoAccess, fullSpectrumCalls(M0, 1))
                 ELSE IF outcome = "info"
                 THEN Step(o, AllStatus("Error"), mats, ctxs, [name |-> "none"],
                           NoAccess, fullSpectrumCalls(M0, all))
                 ELSE Step(o, status,
                           [w \in Workers |->
                              [mats[w] EXCEPT !["R"] =
                                 ConstructFields(w, ctxs, ctxt,
                                                 mats[w][s].numRows_, mats[w][s].numCols_,
                                                 mats[w][s].numBlocksRows_,
                                                 mats[w][s].numBlocksCols_).obj]],
                           ctxs,
                           [name |-> "eigen", neig |-> M0.numRows_],
                           NoAccess, fullSpectrumCalls(M0, all))

\* numEigenvalues mutated: not clamped
clampEigenvaluesNone(numRows, numEigenvalues) == numEigenvalues

\* if (numRows_ < numEigenvalues) numEigenvalues = numRows_
clampEigenvalues(numRows, numEigenvalues) ==
  IF numRows < numEigenvalues THEN numRows ELSE numEigenvalues

\* the two pdsyevr_ calls of diagonalize(numEigenvalues): range 'I', il = 1,
\* iu = the clamped numEigenvalues
partialSpectrumCalls(M, numEigenvalues) ==
  << [routine |-> "pdsyevr", n |-> M.numRows_, lwork |-> "query", range |-> "I",
      il |-> 1, iu |-> clampEigenvalues(M.numRows_, numEigenvalues)],
     [routine |-> "pdsyevr", n |-> M.numRows_, lwork |-> "queried", range |-> "I",
      il |-> 1, iu |-> clampEigenvalues(M.numRows_, numEigenvalues)] >>

\* R = s.diagonalize(numEigenvalues), ParallelMatrix<double> only
DiagonalizeK(s, numEigenvalues, outcome) ==
  /\ AllRunning
  /\ mats[0][s].allocated
  /\ scalar = "double"
  /\ LET o    == [name |-> "diagonalizeK", s |-> s, k |-> numEigenvalues]
         M0   == mats[0][s]
     IN  IF diagonalizeRejects(M0) \/ initBlacsFails(0, 0, size)
         THEN Fail("Error", o)
         ELSE IF outcome = "info"
         THEN Step(o, AllStatus("Error"), mats, contexts, [name |-> "none"],
                   NoAccess, partialSpectrumCalls(M0, numEigenvalues))
         ELSE Step(o, status,
                   [w \in Workers |->
                      [mats[w] EXCEPT !["R"] =
                         zeros(ConstructFields(w, contexts, mats[w][s].blacsContext_,
                                               mats[w][s].numRows_, mats[w][s].numCols_,
                                               mats[w][s].numBlocksRows_,
                                               mats[w][s].numBlocksCols_).obj)]],
                   contexts,
                   [name |-> "eigen",
                    neig |-> clampEigenvalues(M0.numRows_, numEigenvalues)],
                   NoAccess, partialSpectrumCalls(M0, numEigenvalues))

----------------------------------------------------------------------------
(* The diagonalization specification: one grid set up by the caller at     *)
(* most, one matrix with the default blocks, one diagonalize.              *)

DiagNext ==
  \/ /\ contexts = <<>>
     /\ \E r, c \in 0 .. MaxWorkers : InitBlacsCall(r, c)
  \/ \E nr, nc \in 1 .. MaxOpDim, ctx \in -1 .. (MaxContexts - 1) :
       Construct("A", nr, nc, 0, 0, ctx)
  \/ /\ op.name = "construct"
     /\ \E outcome \in {"ok", "badalloc", "info"} : Diagonalize("A", outcome)
  \/ /\ op.name = "construct"
     /\ \E k \in 1 .. (MaxOpDim + MaxEigExtra), outcome \in {"ok", "info"} :
          DiagonalizeK("A", k, outcome)

SpecDiag == Init /\ [][DiagNext]_vars

----------------------------------------------------------------------------
(* getAllLocalRows() and getAllLocalCols().                                *)

\* the loop of getAllLocalRows: indxl2g_ is handed the loop counter k itself
getAllLocalRows(M) ==
  [k1 \in 1 .. M.numLocalRows_ |->
     indxl2g(k1 - 1, M.blockSizeRows_, M.myBlacsRow_, 0, M.numBlacsRows_)]

\* the loop of getAllLocalCols
getAllLocalCols(M) ==
  [k1 \in 1 .. M.numLocalCols_ |->
     indxl2g(k1 - 1, M.blockSizeCols_, M.myBlacsCol_, 0, M.numBlacsCols_)]

\* auto x = s.getAllLocalRows()
GetAllLocalRows(s) ==
  /\ AllRunning
  /\ mats[0][s].allocated
  /\ Step([name |-> "getAllLocalRows", s |-> s], status, mats, contexts,
          [name |-> "indices", x |-> [w \in Workers |-> getAllLocalRows(mats[w][s])]],
          NoAccess, <<>>)

\* auto x = s.getAllLocalCols()
GetAllLocalCols(s) ==
  /\ AllRunning
  /\ mats[0][s].allocated
  /\ Step([name |-> "getAllLocalCols", s |-> s], status, mats, contexts,
          [name |-> "indices", x |-> [w \in Workers |-> getAllLocalCols(mats[w][s])]],
          NoAccess, <<>>)

LocalInit == Init /\ scalar = "double"

LocalNext ==
  \/ \E nr, nc \in 1 .. MaxDim, br, bc \in 0 .. MaxBlocks :
       Construct("A", nr, nc, br, bc, -1)
  \/ GetAllLocalRows("A")
  \/ GetAllLocalCols("A")

SpecLocal == LocalInit /\ [][LocalNext]_vars

----------------------------------------------------------------------------
(* symmetrize(), ParallelMatrix<double> only.  Elements are kept as        *)
(* multiples of 4, so that the products with 0.5 of two calls in a row are *)
(* exact, as they are in binary floating point.                            *)

Elements(M) == (0 .. (M.numRows_ - 1)) \X (0 .. (M.numCols_ - 1))

RECURSIVE fillLoop(_, _, _, _)
\* for (auto [row, col] : s.getAllLocalElements()) s(row, col) = f[row, col],
\* from the k-th local element on
fillLoop(s, M, f, k) ==
  IF k > M.numLocalElements_ THEN M
  ELSE LET rc == getAllLocalElements(M)[k]
       IN  fillLoop(s, storeElement(s, M, rc[1], rc[2], f[rc]).obj, f, k + 1)

\* every worker fills the elements it owns
Fill(s, f) ==
  /\ AllRunning
  /\ mats[0][s].allocated
  /\ Step([name |-> "fill", s |-> s], status,
          [w \in Workers |-> [mats[w] EXCEPT ![s] = fillLoop(s, mats[w][s], f, 1)]],
          contexts, [name |-> "none"],
          [w \in Workers |-> Touch(s, "w", mats[w][s].numLocalElements_)],
          <<>>)

\* the value of the global element (row, col) of the distributed matrix
\* whose parts are ms[w], read on the worker that owns it
globalElement(ms, row, col) ==
  LET w == CHOOSE v \in Workers : global2Local(ms[v], row, col) # -1
  IN  ms[w].mat[global2Local(ms[w], row, col) + 1]

\* scale mutated: 1 in place of 0.5
halfNot(x) == x

\* scale * x with scale = 0.5
half(x) == x \div 2

\* pdtran_: C = beta * C + alpha * transpose(A) with alpha = beta = scale,
\* on the part of C worker w holds; at[v] are the parts of A
pdtran(at, C) ==
  [k1 \in 1 .. C.numLocalElements_ |->
     LET rc == local2Global(C, k1 - 1)
     IN  half(C.mat[k1]) + half(globalElement(at, rc[2], rc[1]))]

\* if (numRows_ != numCols_) Error(...)
symmetrizeRejects(M) == M.numRows_ # M.numCols_

\* s.symmetrize(): AT = *this, then pdtran_ from AT into this
Symmetrize(s) ==
  /\ AllRunning
  /\ mats[0][s].allocated
  /\ scalar = "double"
  /\ LET o  == [name |-> "symmetrize", s |-> s]
         AT == [w \in Workers |-> copyOf(mats[w][s])]
     IN  IF symmetrizeRejects(mats[0][s])
         THEN Fail("Error", o)
         ELSE Step(o, status,
                   [w \in Workers |->
                      [mats[w] EXCEPT ![s].mat = pdtran(AT, mats[w][s])]],
                   contexts, [name |-> "none"], NoAccess,
                   << [routine |-> "pdtran", m |-> mats[0][s].numRows_,
                       n |-> mats[0][s].numRows_, a |-> "AT", c |-> s,
                       alpha |-> "scale", beta |-> "scale"] >>)

SymInit == Init /\ scalar = "double"

SymNext ==
  \/ \E nr, nc \in 1 .. MaxOpDim, br, bc \in {0, 1} :
       Construct("A", nr, nc, br, bc, -1)
  \/ /\ op.name = "construct"
     /\ AllRunning
     /\ \E f \in [Elements(mats[0]["A"]) -> {4 * x : x \in 0 .. MaxVal}] :
          Fill("A", f)
  \/ /\ op.name \in {"fill", "symmetrize"}
     /\ Symmetrize("A")

SpecSym == SymInit /\ [][SymNext]_vars

----------------------------------------------------------------------------
(* Copies and destruction, and the life of the grids.                      *)

\* the copy mutated: mat = that.mat, the buffer is shared
copyAliasShared(al, dst, src) == {p \in al : dst \notin p} \cup {{dst, src}}

\* mat = new T[numLocalElements_], filled element by element: the copy's mat
\* points to an allocation no other object points to
copyAlias(al, dst, src) == {p \in al : dst \notin p}

\* the effect of an operation that leaves dst with a copy of the buffer of src
CopyStep(o, ms, src, dst) ==
  /\ op' = o
  /\ mats' = ms
  /\ alias' = copyAlias(alias, dst, src)
  /\ ret' = [name |-> "none"]
  /\ acc' = [w \in Workers |->
               Touch(src, "r", mats[w][src].numLocalElements_)
                 \cup Touch(dst, "w", mats[w][src].numLocalElements_)]
  /\ calls' = <<>>
  /\ UNCHANGED <<size, scalar, contexts, status, pc, out>>

\* ParallelMatrix<T> dst(src)
CopyConstruct(dst, src) ==
  /\ AllRunning
  /\ mats[0][src].allocated
  /\ ~mats[0][dst].allocated
  /\ CopyStep([name |-> "copy", s |-> dst, from |-> src],
              [w \in Workers |-> [mats[w] EXCEPT ![dst] = copyOf(mats[w][src])]],
              src, dst)

\* operator=(that) past the test this != &that: as the copy constructor, but
\* dummyZero is left as it is
assignOf(M, that) == [copyOf(that) EXCEPT !.dummyZero = M.dummyZero]

\* dst = src
Assign(dst, src) ==
  /\ AllRunning
  /\ mats[0][src].allocated
  /\ mats[0][dst].allocated
  /\ IF dst = src
     THEN Step([name |-> "assign", s |-> dst, from |-> src], status, mats,
               contexts, [name |-> "none"], NoAccess, <<>>)
     ELSE CopyStep([name |-> "assign", s |-> dst, from |-> src],
                   [w \in Workers |->
                      [mats[w] EXCEPT ![dst] = assignOf(mats[w][dst], mats[w][src])]],
                   src, dst)

\* s.zeros()
Zeros(s) ==
  /\ AllRunning
  /\ mats[0][s].allocated
  /\ Step([name |-> "zeros", s |-> s], status,
          [w \in Workers |-> [mats[w] EXCEPT ![s] = zeros(mats[w][s])]],
          contexts, [name |-> "none"],
          [w \in Workers |-> Touch(s, "w", mats[w][s].numLocalElements_)], <<>>)

\* s *= that
Scale(s, that) ==
  /\ AllRunning
  /\ mats[0][s].allocated
  /\ Step([name |-> "*=", s |-> s, by |-> that], status,
          [w \in Workers |->
             [mats[w] EXCEPT ![s].mat =
                [i \in 1 .. mats[w][s].numLocalElements_ |-> mats[w][s].mat[i] * that]]],
          contexts, [name |-> "none"],
          [w \in Workers |-> Touch(s, "w", mats[w][s].numLocalElements_)], <<>>)

\* operator-(): a copy with every element negated
negated(M) ==
  [copyOf(M) EXCEPT !.mat = [i \in 1 .. M.numLocalElements_ |-> 0 - M.mat[i]]]

\* R = -s, for R that holds nothing yet
Negate(s) ==
  /\ AllRunning
  /\ mats[0][s].allocated
  /\ ~mats[0]["R"].allocated
  /\ CopyStep([name |-> "negate", s |-> s],
              [w \in Workers |-> [mats[w] EXCEPT !["R"] = negated(mats[w][s])]],
              s, "R")

\* ~ParallelMatrix(): delete[] mat; nothing of BLACS is called
Destroy(s) ==
  /\ AllRunning
  /\ mats[0][s].allocated
  /\ Step([name |-> "destroy", s |-> s], status,
          [w \in Workers |-> [mats[w] EXCEPT ![s] = EmptyMatrix]],
          contexts, [name |-> "none"], NoAccess, <<>>)

CopyInit == Init /\ scalar = "double"

\* B is a copy of A and no arithmetic has been done yet
CopyReady ==
  /\ mats[0]["B"].allocated
  /\ op.name \in {"copy", "set", "assign", "zeros", "eye"}

\* a matrix, a store into it, a copy of it, then stores, copies and fills in
\* any order and number, then one arithmetic operation
CopyNext ==
  \/ \E nr, nc \in 1 .. MaxOpDim, bl \in {0, 1} : Construct("A", nr, nc, bl, bl, -1)
  \/ /\ op.name = "construct"
     /\ \E v \in 1 .. MaxVal : SetElement("A", 0, 0, v)
  \/ CopyConstruct("B", "A")
  \/ CopyReady /\ \E dst, src \in {"A", "B"} : Assign(dst, src)
  \/ CopyReady /\ \E s \in {"A", "B"}, v \in 1 .. MaxVal : SetElement(s, 0, 0, v)
  \/ CopyReady /\ \E s \in {"A", "B"} : Zeros(s)
  \/ CopyReady /\ Eye("B")
  \/ CopyReady /\ Scale("A", 2)
  \/ CopyReady /\ \E sign \in {1, -1} : AddAssign("A", "B", sign)
  \/ CopyReady /\ Negate("B")

SpecCopy == CopyInit /\ [][CopyNext]_vars

GridNext ==
  \/ \E s \in {"A", "B"}, n \in 1 .. MaxOpDim, ctx \in -1 .. (MaxContexts - 1) :
       Construct(s, n, n, 0, 0, ctx)
  \/ CopyConstruct("R", "A")
  \/ \E s \in Slots : Destroy(s)
  \/ mats[0]["B"].allocated /\ Prod("A", "B", "N", "N")
  \/ Diagonalize("A", "ok")
  \/ Symmetrize("A")

SpecGrid == Init /\ [][GridNext]_vars

----------------------------------------------------------------------------
(* dot(), and the element-wise operations on matrices of different layouts.*)

RECURSIVE dotLoop(_, _, _, _)
\* the loop of dot from index i on: scalar += mat[i] * that.mat[i]
dotLoop(M, that, junk, i) ==
  IF i >= M.numLocalElements_ THEN 0
  ELSE M.mat[i + 1] * loadThat(that, i, junk) + dotLoop(M, that, junk, i + 1)

RECURSIVE allReduceSum(_, _)
\* mpi->allReduceSum: the sum of the workers' values x[0] .. x[upTo]
allReduceSum(x, upTo) ==
  IF upTo < 0 THEN 0 ELSE x[upTo] + allReduceSum(x, upTo - 1)

\* x = a.dot(b)
Dot(a, b) ==
  /\ AllRunning
  /\ mats[0][a].allocated /\ mats[0][b].allocated
  /\ LET o == [name |-> "dot", a |-> a, b |-> b]
         t(w) == Touch(a, "r", mats[w][a].numLocalElements_)
                   \cup Touch(b, "r", mats[w][a].numLocalElements_)
     IN  \E crash \in BOOLEAN, junk \in 0 .. MaxVal :
           /\ crash => \E w \in Workers : OutOfBuffer(w, t(w))
           /\ junk # 0 => \E w \in Workers : OutOfBuffer(w, t(w))
           /\ Step(o,
                   [w \in Workers |-> AfterAccess(w, t(w), crash)],
                   mats, contexts,
                   [name |-> "scalar",
                    val |-> allReduceSum([w \in Workers |->
                                            dotLoop(mats[w][a], mats[w][b], junk, 0)],
                                         size - 1)],
                   [w \in Workers |-> t(w)],
                   <<>>)

\* two matrices, each with block counts of its own, on one grid or on two,
\* the second filled with the identity, then one operation on the pair
DotNext ==
  \/ \E nr, nc \in 1 .. MaxOpDim, br, bc \in {0, 1} :
       Construct("A", nr, nc, br, bc, -1)
  \/ \E nr, nc \in 1 .. MaxOpDim, br, bc \in {0, 1}, ctx \in {-1, 0} :
       Construct("B", nr, nc, br, bc, ctx)
  \/ op.name = "construct" /\ Eye("B")
  \/ ArithReady /\ \E sign \in {1, -1} : AddAssign("A", "B", sign)
  \/ ArithReady /\ Dot("A", "B")

SpecDot == Init /\ [][DotNext]_vars

----------------------------------------------------------------------------
(* The local element count in machine arithmetic.  numLocalRows_ and       *)
(* numLocalCols_ are int, numLocalElements_ is size_t (PMatrix.h 33-35).   *)
(* The widths are scaled down: int has IntBits bits where the build has    *)
(* 32, size_t has twice as many where the build has 64, so that a product  *)
(* of two dimensions leaves int within the dimensions explored.            *)

\* number of bits of int in the model
IntBits == 4
\* INT_MAX
IntMax == 2 ^ (IntBits - 1) - 1
\* SIZE_MAX + 1
SizeMod == 2 ^ (2 * IntBits)
\* sizeof(double)
SizeOfT == 8

\* the int that a two's-complement register of IntBits bits holds for x
wrapInt(x) ==
  LET m == x % (2 ^ IntBits) IN IF m > IntMax THEN m - 2 ^ IntBits ELSE m

\* the conversion of an integer value to size_t
toSizeT(x) == x % SizeMod

\* numLocalElements_ = numLocalRows_ * numLocalCols_: an int product
\* converted to size_t.  When the product leaves int the multiplication is
\* undefined: the build either wraps it in an int register and sign-extends
\* (wide = FALSE) or multiplies in the width of the destination (wide = TRUE)
localElements(lr, lc, wide) ==
  IF lr * lc <= IntMax \/ wide THEN toSizeT(lr * lc) ELSE toSizeT(wrapInt(lr * lc))

\* if (numLocalElements_ < 0): the comparison of a size_t with zero
overflowTest(nel) == nel < 0

\* new T[n] throws std::bad_array_new_length when n * sizeof(T) leaves size_t
newThrows(n) == n * SizeOfT >= SizeMod

\* the constructor on worker w in machine arithmetic: the object and the
\* way the constructor ends ("running", "Error", "abort" for the uncaught
\* exception of new, "DeveloperError" for descinit_)
constructInt(w, ctxs, ctxt, numRows, numCols, numBlocksRows, numBlocksCols, wide) ==
  LET c   == ConstructFields(w, ctxs, ctxt, numRows, numCols,
                             numBlocksRows, numBlocksCols)
      nel == localElements(c.obj.numLocalRows_, c.obj.numLocalCols_, wide)
      set == [c.obj EXCEPT !.numLocalElements_ = nel,
                           !.descMat_ = EmptyMatrix.descMat_,
                           !.mat = <<>>, !.allocated = FALSE]
  IN  IF overflowTest(nel) THEN [obj |-> set, st |-> "Error"]
      ELSE IF newThrows(nel) THEN [obj |-> set, st |-> "abort"]
      ELSE IF c.info # 0
           THEN [obj |-> [set EXCEPT !.mat = ZeroBuffer(nel), !.allocated = TRUE],
                 st |-> "DeveloperError"]
           ELSE [obj |-> [c.obj EXCEPT !.numLocalElements_ = nel,
                                       !.mat = ZeroBuffer(nel)],
                 st |-> "running"]

\* ParallelMatrix<double> s(numRows, numCols, numBlocksRows, numBlocksCols)
\* with dimensions up to INT_MAX
ConstructInt(s, numRows, numCols, numBlocksRows, numBlocksCols, wide) ==
  /\ AllRunning
  /\ op.name = "start"
  /\ LET o    == [name |-> "construct", s |-> s, ctx |-> -1]
         ctxs == initBlacsContexts(contexts, 0, 0, -1, size)
         ctxt == initBlacsContextId(contexts, -1)
         c(w) == constructInt(w, ctxs, ctxt, numRows, numCols,
                              numBlocksRows, numBlocksCols, wide)
     IN  IF initBlacsFails(0, 0, size)
         THEN Fail("Error", o)
         ELSE /\ contexts' = ctxs
              /\ mats' = [w \in Workers |-> [mats[w] EXCEPT ![s] = c(w).obj]]
              /\ status' = [w \in Workers |-> c(w).st]
              /\ op' = o
              /\ ret' = [name |-> "none"]
              /\ acc' = NoAccess
              /\ calls' = <<>>
              /\ UNCHANGED <<size, scalar>>
              /\ Protocol
              /\ alias' = alias

OverflowInit == Init /\ scalar = "double"

\* one matrix of any shape that int can hold, then its owned elements
OverflowNext ==
  \/ \E nr, nc \in 1 .. IntMax, br, bc \in {0, 1}, wide \in BOOLEAN :
       ConstructInt("A", nr, nc, br, bc, wide)
  \/ GetAllLocalElements("A")

SpecOverflow == OverflowInit /\ [][OverflowNext]_vars

----------------------------------------------------------------------------
(* Error / DeveloperError, statement by statement and worker by worker.    *)
(* pc[w] names the statement worker w is at: "print" (the mpiHead test),   *)
(* "barrier", "finalize", "exit", then "exited".                           *)

ErrCodes == {0, 1}

\* the routine mutated: no barrier between the message and finalize
errorNextNoBarrier(at) ==
  CASE at = "print"    -> "finalize"
    [] at = "barrier"  -> "finalize"
    [] at = "finalize" -> "exit"
    [] at = "exit"     -> "exited"

\* the statement that follows statement at in the body of the routine
errorNext(at) ==
  CASE at = "print"    -> "barrier"
    [] at = "barrier"  -> "finalize"
    [] at = "finalize" -> "exit"
    [] at = "exit"     -> "exited"

\* mpi->barrier() returns on a worker when every worker has called it
barrierOpen == \A v \in Workers : pc[v] \in {"barrier", "finalize", "exit", "exited"}

\* worker w calls Error(msg, errCode) or DeveloperError(msg, errCode)
CallError(w, kind, errCode) ==
  /\ status[w] = "running"
  /\ op' = [name |-> kind, code |-> errCode]
  /\ IF errCode # 0
     THEN /\ status' = [status EXCEPT ![w] = kind]
          /\ pc' = [pc EXCEPT ![w] = "print"]
     ELSE UNCHANGED <<status, pc>>
  /\ UNCHANGED <<size, scalar, contexts, mats, ret, acc, calls, out, alias>>

\* the condition did not arise on worker w: it goes on with the program
Continue(w) ==
  /\ status[w] = "running"
  /\ status' = [status EXCEPT ![w] = "continued"]
  /\ UNCHANGED <<size, scalar, contexts, mats, op, ret, acc, calls, pc, out, alias>>

\* if (mpi->mpiHead()) { std::cout << ... }
ErrorPrint(w) ==
  /\ pc[w] = "print"
  /\ out' = IF mpiHead(w) THEN Append(out, [w |-> w, kind |-> status[w]]) ELSE out
  /\ pc' = [pc EXCEPT ![w] = errorNext("print")]
  /\ UNCHANGED <<size, scalar, contexts, mats, status, op, ret, acc, calls, alias>>

\* mpi->barrier()
ErrorBarrier(w) ==
  /\ pc[w] = "barrier"
  /\ barrierOpen
  /\ pc' = [pc EXCEPT ![w] = errorNext("barrier")]
  /\ UNCHANGED <<size, scalar, contexts, mats, status, op, ret, acc, calls, out, alias>>

\* mpi->finalize()
ErrorFinalize(w) ==
  /\ pc[w] = "finalize"
  /\ pc' = [pc EXCEPT ![w] = errorNext("finalize")]
  /\ UNCHANGED <<size, scalar, contexts, mats, status, op, ret, acc, calls, out, alias>>

\* exit(errCode)
ErrorExit(w) ==
  /\ pc[w] = "exit"
  /\ pc' = [pc EXCEPT ![w] = errorNext("exit")]
  /\ UNCHANGED <<size, scalar, contexts, mats, status, op, ret, acc, calls, out, alias>>

ErrorInit == Init /\ scalar = "double"

ErrorNext ==
  \/ \E w \in Workers, kind \in ErrorKinds, errCode \in ErrCodes :
       CallError(w, kind, errCode)
  \/ \E w \in Workers : Continue(w)
  \/ \E w \in Workers : ErrorPrint(w)
  \/ \E w \in Workers : ErrorBarrier(w)
  \/ \E w \in Workers : ErrorFinalize(w)
  \/ \E w \in Workers : ErrorExit(w)

SpecError == ErrorInit /\ [][ErrorNext]_vars

\* every worker is a process of its own and keeps running
SpecErrorLive == ErrorInit /\ [][ErrorNext]_vars /\ WF_vars(ErrorNext)

----------------------------------------------------------------------------
(* Claims about the layout (SpecLayout).                                   *)

Constructed(s) == AllRunning /\ mats[0][s].allocated

RECURSIVE SumLocalSizes(_, _)
\* localRows() * localCols() summed over the workers 0 .. w
SumLocalSizes(s, w) ==
  IF w < 0 THEN 0
  ELSE mats[w][s].numLocalRows_ * mats[w][s].numLocalCols_ + SumLocalSizes(s, w - 1)

Owners(s, row, col) == {w \in Workers : global2Local(mats[w][s], row, col) # -1}

\* C1: every in-range global coordinate of a constructed matrix has a
\* global2Local value other than -1 on exactly one worker of the grid, and
\* localRows*localCols summed over the workers is numRows*numCols.
C1_OwnershipPartition ==
  Constructed("A") =>
    /\ \A row \in 0 .. (mats[0]["A"].numRows_ - 1),
          col \in 0 .. (mats[0]["A"].numCols_ - 1) :
         Cardinality(Owners("A", row, col)) = 1
    /\ SumLocalSizes("A", size - 1) = mats[0]["A"].numRows_ * mats[0]["A"].numCols_

\* a 3 x 4 matrix in blocks of one row on a 2 x 2 grid: worker 0 holds two
\* row blocks, worker 2 one
C1_Witness ==
  /\ Constructed("A")
  /\ size = 4
  /\ mats[0]["A"].numBlacsRows_ = 2
  /\ mats[0]["A"].numRows_ = 3
  /\ mats[0]["A"].numCols_ = 4
  /\ mats[0]["A"].blockSizeRows_ = 1
  /\ mats[0]["A"].numLocalRows_ = 2
  /\ mats[2]["A"].numLocalRows_ = 1

InRange(M, rc) ==
  /\ rc[1] >= 0 /\ rc[1] < M.numRows_
  /\ rc[2] >= 0 /\ rc[2] < M.numCols_

\* C2: on every worker, for every local index k below numLocalElements_,
\* local2Global(k) is in range and global2Local maps it back to k; every
\* index global2Local gives for an in-range coordinate it owns is below
\* numLocalElements_; getAllLocalElements returned numLocalElements_
\* pairwise distinct coordinates, each owned by the caller.
C2_RoundTrip ==
  Constructed("A") =>
    \A w \in Workers :
      LET M == mats[w]["A"] IN
        /\ \A k \in 0 .. (M.numLocalElements_ - 1) :
             /\ InRange(M, local2Global(M, k))
             /\ global2Local(M, local2Global(M, k)[1], local2Global(M, k)[2]) = k
        /\ \A row \in 0 .. (M.numRows_ - 1), col \in 0 .. (M.numCols_ - 1) :
             global2Local(M, row, col) \in {-1} \cup (0 .. (M.numLocalElements_ - 1))
        /\ ret.name = "elements" =>
             /\ Len(ret.x[w]) = M.numLocalElements_
             /\ \A a, b \in 1 .. Len(ret.x[w]) : ret.x[w][a] = ret.x[w][b] => a = b
             /\ \A a \in 1 .. Len(ret.x[w]) :
                  /\ InRange(M, ret.x[w][a])
                  /\ global2Local(M, ret.x[w][a][1], ret.x[w][a][2]) = a - 1

\* getAllLocalElements returned on a 1 x 4 grid, where worker 1 holds both
\* rows of two non-adjacent columns of a 2 x 4 matrix
C2_Witness ==
  /\ Constructed("A")
  /\ ret.name = "elements"
  /\ size = 4
  /\ mats[1]["A"].numBlacsCols_ = 4
  /\ mats[1]["A"].numRows_ = 2
  /\ mats[1]["A"].numCols_ = 4
  /\ mats[1]["A"].numLocalElements_ = 2
  /\ Len(ret.x[1]) = 2

----------------------------------------------------------------------------
(* Claims about element access (SpecAccess).                               *)

IsAccess == op.name \in {"set", "get", "getConst"}

\* C6 as claimed: an access with a row outside 0 .. numRows-1 or a column
\* outside 0 .. numCols-1, through either accessor, raises the developer
\* error on every worker and touches no slot of the local buffer.
C6_OutOfRangeRaises ==
  (IsAccess /\ ~InRange(mats[0]["A"], <<op.row, op.col>>)) =>
    \A w \in Workers : status[w] = "DeveloperError" /\ acc[w] = {}

\* what the last load must have returned on worker w
ExpectedLoad(w) ==
  LET M == mats[w]["A"]
      i == global2Local(M, op.row, op.col)
  IN  IF i = -1 THEN 0 ELSE M.mat[i + 1]

\* the buffer of worker w after a store of v at (row, col), from the buffer
\* before it
ExpectedStore(M, row, col, v) ==
  IF global2Local(M, row, col) = -1
  THEN M.mat
  ELSE [M.mat EXCEPT ![global2Local(M, row, col) + 1] = v]

\* C7: for an in-range coordinate, a load on a worker that does not own it
\* yields zero and a load on the owner yields the stored slot, whatever was
\* stored through non-owned references before; a store leaves the buffer of
\* a non-owner as it was and changes exactly the slot global2Local names on
\* the owner.
C7_NonOwnedAccess ==
  /\ [](  (op.name \in {"get", "getConst"} /\ InRange(mats[0]["A"], <<op.row, op.col>>))
            => \A w \in Workers : ret.val[w] = ExpectedLoad(w))
  /\ [][ (op'.name = "set" /\ InRange(mats[0]["A"], <<op'.row, op'.col>>))
            => \A w \in Workers :
                 mats'[w]["A"].mat = ExpectedStore(mats[w]["A"], op'.row, op'.col, op'.v) ]_vars

\* a load of an entry that worker 1 does not own, after a store that left a
\* non-zero value in worker 1's dummy and in the owner's buffer
C7_Witness ==
  /\ size = 4
  /\ op.name = "get"
  /\ InRange(mats[0]["A"], <<op.row, op.col>>)
  /\ global2Local(mats[1]["A"], op.row, op.col) = -1
  /\ ret.val[1] = 0
  /\ \E w \in Workers : \E i \in 1 .. Len(mats[w]["A"].mat) : mats[w]["A"].mat[i] # 0
  /\ \A i \in 1 .. Len(mats[1]["A"].mat) : mats[1]["A"].mat[i] = 0

----------------------------------------------------------------------------
(* Claims about prod, += and -= (SpecArith).                               *)

\* rows and columns of op(M) for a transpose flag
OpRows(M, trans) == IF trans = "N" THEN M.numRows_ ELSE M.numCols_

OpCols(M, trans) == IF trans = "N" THEN M.numCols_ ELSE M.numRows_

\* whether the inner dimensions of op(a) op(b) agree for the last prod
InnerAgree ==
  OpCols(mats[0][op.a], op.t1) = OpRows(mats[0][op.b], op.t2)

ProdReturned == op.name = "prod" /\ AllRunning

\* C3 as claimed: whenever prod returns for operands whose inner dimensions
\* agree, for either scalar type and any flags, the returned matrix has
\* global shape m x n, m the rows of op(this) and n the columns of op(that),
\* the m and n given to the backend.
C3_ProdShape ==
  (ProdReturned /\ InnerAgree) =>
    /\ calls[1].m = OpRows(mats[0][op.a], op.t1)
    /\ calls[1].n = OpCols(mats[0][op.b], op.t2)
    /\ \A w \in Workers :
         /\ mats[w]["R"].numRows_ = calls[1].m
         /\ mats[w]["R"].numCols_ = calls[1].n

\* C4 as claimed: prod raises the fatal error, with no backend call, exactly
\* when the inner dimensions disagree after the transpose flags; when they
\* agree it does not fail and reaches the backend call.
C4_ProdInnerCheck ==
  op.name = "prod" =>
    IF InnerAgree
    THEN AllRunning /\ Len(calls) = 1
    ELSE (\A w \in Workers : status[w] = "Error") /\ calls = <<>>

\* C5: += and -= between matrices whose global row counts or global column
\* counts differ raise the fatal error on every worker with no element of
\* either buffer read or written, and leave both objects as they were.
C5_AddShapeMismatch ==
  /\ []( (op.name \in {"+=", "-="} /\ ( mats[0][op.a].numRows_ # mats[0][op.b].numRows_
                                      \/ mats[0][op.a].numCols_ # mats[0][op.b].numCols_ ))
           => \A w \in Workers : status[w] = "Error" /\ acc[w] = {} )
  /\ [][ (op'.name \in {"+=", "-="} /\ ( mats[0][op'.a].numRows_ # mats[0][op'.b].numRows_
                                       \/ mats[0][op'.a].numCols_ # mats[0][op'.b].numCols_ ))
           => mats' = mats ]_vars

\* A -= B refused for a 2 x 1 matrix A and the 2 x 2 identity B on four
\* workers: the row counts agree, the column counts differ
C5_Witness ==
  /\ op.name = "-="
  /\ size = 4
  /\ mats[0]["A"].numRows_ = 2 /\ mats[0]["A"].numCols_ = 1
  /\ mats[0]["B"].numRows_ = 2 /\ mats[0]["B"].numCols_ = 2
  /\ \E w \in Workers : \E i \in 1 .. Len(mats[w]["B"].mat) : mats[w]["B"].mat[i] = 1
  /\ \A w \in Workers : status[w] = "Error"

----------------------------------------------------------------------------
(* Claims about diagonalize (SpecDiag).                                    *)

IsDiagonalize == op.name \in {"diagonalize", "diagonalizeK"}

\* C8 as claimed: for both overloads and both scalar types the returned
\* eigenvector matrix has the global shape of the source and is bound to the
\* source's grid context id, and diagonalize creates no grid context.
C8_EigenvectorsBinding ==
  /\ []( (IsDiagonalize /\ AllRunning) =>
           \A w \in Workers :
             /\ mats[w]["R"].numRows_ = mats[w]["A"].numRows_
             /\ mats[w]["R"].numCols_ = mats[w]["A"].numCols_
             /\ mats[w]["R"].blacsContext_ = mats[w]["A"].blacsContext_ )
  /\ [][ op'.name \in {"diagonalize", "diagonalizeK"} => contexts' = contexts ]_vars

\* C9: every diagonalize on a matrix that is not square or whose process
\* grid is not square raises the fatal error on every worker before any
\* backend call, and returns nothing.
C9_DiagonalizeRejects ==
  (IsDiagonalize /\ ( mats[0]["A"].numRows_ # mats[0]["A"].numCols_
                    \/ mats[0]["A"].numBlacsRows_ # mats[0]["A"].numBlacsCols_ )) =>
    /\ \A w \in Workers : status[w] = "Error"
    /\ calls = <<>>
    /\ ret.name = "none"
    /\ \A w \in Workers : ~mats[w]["R"].allocated

\* diagonalize() refused for a square matrix on a 1 x 4 grid
C9_Witness ==
  /\ op.name = "diagonalize"
  /\ size = 4
  /\ mats[0]["A"].numRows_ = 2 /\ mats[0]["A"].numCols_ = 2
  /\ mats[0]["A"].numBlacsRows_ = 1 /\ mats[0]["A"].numBlacsCols_ = 4
  /\ \A w \in Workers : status[w] = "Error"
  /\ calls = <<>>

----------------------------------------------------------------------------
(* Claims about the process grid (SpecLayout).                             *)

\* C11 as claimed: a construction with a supplied grid context binds the
\* matrix to that context, takes the grid shape and the worker's coordinate
\* from it, creates no grid, and does not raise the fatal error whatever the
\* number of workers.
C11_SuppliedContext ==
  /\ []( (op.name = "construct" /\ op.ctx # -1) =>
           \A w \in Workers :
             /\ status[w] # "Error"
             /\ mats[w]["A"].allocated =>
                  /\ mats[w]["A"].blacsContext_ = op.ctx
                  /\ mats[w]["A"].numBlacsRows_ = contexts[op.ctx + 1].nprow
                  /\ mats[w]["A"].numBlacsCols_ = contexts[op.ctx + 1].npcol
                  /\ mats[w]["A"].myBlacsRow_ = blacs_gridinfo(contexts, op.ctx, w).myrow
                  /\ mats[w]["A"].myBlacsCol_ = blacs_gridinfo(contexts, op.ctx, w).mycol )
  /\ [][ (op'.name = "construct" /\ op'.ctx # -1) => contexts' = contexts ]_vars

\* C12 as claimed: when initBlacs without a supplied context returns, the
\* grid it established has between 1 and size processes; when the requested
\* grid exceeds the number of workers, or no dimension is given and the
\* number of workers is not a perfect square, the fatal error is raised and
\* no grid has been created.
C12_GridWithinWorkers ==
  op.name = "initBlacs" =>
    /\ AllRunning =>
         /\ Len(contexts) = 1
         /\ contexts[1].nprow * contexts[1].npcol >= 1
         /\ contexts[1].nprow * contexts[1].npcol <= size
    /\ ( \/ size < op.r * op.c
         \/ (op.r = 0 /\ op.c = 0 /\ ISqrt(size) * ISqrt(size) # size) ) =>
         /\ \A w \in Workers : status[w] = "Error"
         /\ contexts = <<>>

----------------------------------------------------------------------------
(* Claims about the fatal-error routine (SpecError, SpecErrorLive).        *)

\* C13: the message of Error / DeveloperError is printed by the head only
\* and at most once, exactly once when every worker has called the routine;
\* no worker is past the barrier (finalizing or exiting) unless every worker
\* has entered the barrier.
C13_ErrorProtocol ==
  /\ \A i \in 1 .. Len(out) : mpiHead(out[i].w)
  /\ Len(out) <= 1
  /\ (\A w \in Workers : pc[w] \notin {"none", "print"}) => Len(out) = 1
  /\ \A w \in Workers :
       pc[w] \in {"finalize", "exit", "exited"} =>
         \A v \in Workers : pc[v] \in {"barrier", "finalize", "exit", "exited"}

\* four workers called the routine and all of them have exited
C13_Witness ==
  /\ size = 4
  /\ \A w \in Workers : status[w] \in ErrorKinds /\ pc[w] = "exited"
  /\ Len(out) = 1
  /\ out[1].w = 0

\* C14 as claimed: once a worker has raised an error, on however many
\* workers the condition arose, every worker that is in the fatal-error
\* routine eventually exits: none stays in the barrier for ever.
C14_AllTerminate ==
  (\E w \in Workers : status[w] \in ErrorKinds)
    ~> (\A w \in Workers : status[w] \in ErrorKinds => pc[w] = "exited")

----------------------------------------------------------------------------
(* Claims about symmetrize (SpecSym).                                      *)

IsSquare(M) == M.numRows_ = M.numCols_

PartsOf(ms, s) == [w \in Workers |-> ms[w][s]]

\* C15: symmetrize on a square matrix replaces every element (i, j) with
\* (A[i][j] + A[j][i]) / 2 of the contents before the call, through one
\* pdtran call from a snapshot into the matrix with both scales 0.5; the
\* result equals its transpose and a second symmetrize leaves it unchanged;
\* on a non-square matrix the fatal error is raised, the backend is not
\* called and the matrix is not changed.
C15_Symmetrize ==
  /\ [][ (op'.name = "symmetrize" /\ IsSquare(mats[0]["A"])) =>
           /\ \A rc \in Elements(mats[0]["A"]) :
                2 * globalElement(PartsOf(mats', "A"), rc[1], rc[2])
                  = globalElement(PartsOf(mats, "A"), rc[1], rc[2])
                    + globalElement(PartsOf(mats, "A"), rc[2], rc[1])
           /\ \A rc \in Elements(mats[0]["A"]) :
                globalElement(PartsOf(mats', "A"), rc[1], rc[2])
                  = globalElement(PartsOf(mats', "A"), rc[2], rc[1])
           /\ calls' = << [routine |-> "pdtran", m |-> mats[0]["A"].numRows_,
                           n |-> mats[0]["A"].numRows_, a |-> "AT", c |-> "A",
                           alpha |-> "scale", beta |-> "scale"] >>
           /\ op.name = "symmetrize" => mats' = mats ]_vars
  /\ [][ (op'.name = "symmetrize" /\ ~IsSquare(mats[0]["A"])) =>
           /\ \A w \in Workers : status'[w] = "Error"
           /\ calls' = <<>>
           /\ mats' = mats ]_vars

\* a 2 x 2 matrix spread over four workers, not symmetric when filled, after
\* symmetrize: both off-diagonal elements are the mean
C15_Witness ==
  /\ op.name = "symmetrize"
  /\ size = 4
  /\ AllRunning
  /\ mats[0]["A"].numRows_ = 2
  /\ mats[0]["A"].blockSizeRows_ = 1
  /\ globalElement(PartsOf(mats, "A"), 0, 1) = 2
  /\ globalElement(PartsOf(mats, "A"), 1, 0) = 2
  /\ globalElement(PartsOf(mats, "A"), 0, 0) = 4

----------------------------------------------------------------------------
(* Claims about the owned rows and columns (SpecLocal).                    *)

Ascending(x) == \A i, j \in 1 .. Len(x) : i < j => x[i] < x[j]

Entries(x) == {x[i] : i \in 1 .. Len(x)}

\* C16 as claimed: on every worker getAllLocalRows returns, in ascending
\* order, exactly the numLocalRows_ zero-based rows r with
\* (r div blockSizeRows_) mod numBlacsRows_ = myBlacsRow_, which are the rows
\* global2Local reports as owned; getAllLocalCols does the same for columns.
C16_LocalRowsCols ==
  /\ op.name = "getAllLocalRows" =>
       \A w \in Workers :
         LET M == mats[w]["A"] IN
           /\ Len(ret.x[w]) = M.numLocalRows_
           /\ Ascending(ret.x[w])
           /\ Entries(ret.x[w])
                = {r \in 0 .. (M.numRows_ - 1) :
                     (r \div M.blockSizeRows_) % M.numBlacsRows_ = M.myBlacsRow_}
           /\ M.numLocalCols_ > 0 =>
                Entries(ret.x[w])
                  = {r \in 0 .. (M.numRows_ - 1) :
                       \E c \in 0 .. (M.numCols_ - 1) : global2Local(M, r, c) # -1}
  /\ op.name = "getAllLocalCols" =>
       \A w \in Workers :
         LET M == mats[w]["A"] IN
           /\ Len(ret.x[w]) = M.numLocalCols_
           /\ Ascending(ret.x[w])
           /\ Entries(ret.x[w])
                = {c \in 0 .. (M.numCols_ - 1) :
                     (c \div M.blockSizeCols_) % M.numBlacsCols_ = M.myBlacsCol_}
           /\ M.numLocalRows_ > 0 =>
                Entries(ret.x[w])
                  = {c \in 0 .. (M.numCols_ - 1) :
                       \E r \in 0 .. (M.numRows_ - 1) : global2Local(M, r, c) # -1}

----------------------------------------------------------------------------
(* Claims about the life of the grids (SpecGrid).                          *)

GridShapes == {contexts[i] : i \in 1 .. Len(contexts)}

\* C17 as claimed: after any sequence of constructions, copies, prod,
\* diagonalize, symmetrize and destructions, no more grid contexts have been
\* created than distinct grid shapes were asked for (matrices on the default
\* grid share one context), and no grid context is ever destroyed.
C17_GridLifecycle ==
  /\ [](Len(contexts) <= Cardinality(GridShapes))
  /\ [][ /\ Len(contexts') >= Len(contexts)
         /\ SubSeq(contexts', 1, Len(contexts)) = contexts ]_vars

----------------------------------------------------------------------------
(* Claims about the buffer and the descriptor (SpecCopy).                  *)

\* the object whose buffer the operation o stores into
WrittenSlot(o) == IF o.name \in {"+=", "-="} THEN o.a ELSE o.s

\* C18, for every matrix that holds a shape: after any sequence of
\* construction, copy construction, copy assignment (self-assignment too),
\* zeros, eye, *=, +=, -= and negation, the local buffer has
\* numLocalRows_ * numLocalCols_ elements, the local counts are those of the
\* shape, block size and grid, and the descriptor is (1, context, rows, cols,
\* blockSizeRows_, blockSizeCols_, 0, 0, max(1, numLocalRows_)); a copy has
\* the contents of its source and storage of its own: an operation that
\* stores into one matrix changes the buffer of no other.
C18_BufferAndDescriptor ==
  /\ [](\A w \in Workers : \A s \in Slots :
          LET M == mats[w][s] IN
            M.allocated =>
              /\ Len(M.mat) = M.numLocalRows_ * M.numLocalCols_
              /\ M.numLocalRows_ = numroc(M.numRows_, M.blockSizeRows_,
                                          M.myBlacsRow_, 0, M.numBlacsRows_)
              /\ M.numLocalCols_ = numroc(M.numCols_, M.blockSizeCols_,
                                          M.myBlacsCol_, 0, M.numBlacsCols_)
              /\ M.descMat_ = << 1, M.blacsContext_, M.numRows_, M.numCols_,
                                 M.blockSizeRows_, M.blockSizeCols_, 0, 0,
                                 Max2(1, M.numLocalRows_) >>)
  /\ [][ /\ op'.name \in {"set", "zeros", "eye", "*=", "+=", "-="} =>
              \A w \in Workers : \A t \in Slots \ {WrittenSlot(op')} :
                mats'[w][t] = mats[w][t]
         /\ op'.name \in {"copy", "assign"} =>
              \A w \in Workers :
                /\ mats'[w][op'.s].mat = mats[w][op'.from].mat
                /\ mats'[w][op'.s].descMat_ = mats[w][op'.from].descMat_
                /\ \A t \in Slots \ {op'.s} : mats'[w][t] = mats[w][t]
         /\ (op'.name = "assign" /\ op'.s = op'.from) => mats' = mats ]_vars

\* B was copied from A, then A(0, 0) was stored into: on four workers the
\* owner's buffers differ
C18_Witness ==
  /\ size = 4
  /\ op.name = "set" /\ op.s = "A"
  /\ AllRunning
  /\ mats[0]["B"].allocated
  /\ mats[0]["A"].numRows_ = 2 /\ mats[0]["A"].numCols_ = 2
  /\ mats[0]["A"].mat[1] = 1
  /\ mats[0]["B"].mat[1] = 0

----------------------------------------------------------------------------
(* Claims about the calls of diagonalize() (SpecDiag).                     *)

EigenSolvers == {"pdsyevd", "pzheev"}

\* C19 as claimed: diagonalize(), for both scalar types, first calls the
\* eigensolver as a workspace-size query, then allocates a workspace of the
\* size the query returned, then makes the real call; it returns only after
\* the three, and when the real call reports a nonzero status the fatal
\* error is raised and nothing is returned.
C19_TwoPhaseCall ==
  (op.name = "diagonalize" /\ calls # <<>>) =>
    /\ calls[1].routine \in EigenSolvers /\ calls[1].lwork = "query"
    /\ Len(calls) >= 2 =>
         calls[2].routine = "allocate" /\ calls[2].lwork = "queried"
    /\ Len(calls) >= 3 =>
         calls[3].routine \in EigenSolvers /\ calls[3].lwork = "queried"
    /\ Len(calls) <= 3
    /\ AllRunning => Len(calls) = 3 /\ ret.name = "eigen"
    /\ ~AllRunning =>
         /\ \A w \in Workers : status[w] = "Error"
         /\ ret.name = "none"
         /\ \A w \in Workers : ~mats[w]["R"].allocated

----------------------------------------------------------------------------
(* Claims about the reads of the right operand (SpecDot).                  *)

\* C20 as claimed: when +=, -= or dot is applied to two matrices that pass
\* the shape test (dot has none), every index read from the buffer of the
\* right operand is below the length of that buffer, whatever the block
\* counts and the grids of the two matrices.
C20_RightOperandReads ==
  (op.name \in {"+=", "-=", "dot"} /\ \A w \in Workers : status[w] # "Error") =>
    \A w \in Workers : \A a \in acc[w] :
      (a.s = op.b /\ a.k = "r") => a.i < Len(mats[w][op.b].mat)

----------------------------------------------------------------------------
(* Claims about the local element count (SpecOverflow).                    *)

\* C21 as claimed: on every worker where the product of the local row and
\* column counts does not fit in int, the constructor ends in the fatal
\* Error and allocates no buffer; no buffer is ever allocated whose length
\* differs from that product.
C21_OverflowRaisesError ==
  op.name = "construct" =>
    \A w \in Workers :
      LET M == mats[w][op.s]
      IN  /\ M.numLocalRows_ * M.numLocalCols_ > IntMax =>
               status[w] = "Error" /\ ~M.allocated
          /\ M.allocated => Len(M.mat) = M.numLocalRows_ * M.numLocalCols_

====
